---- MODULE Spec2Model ----
(***************************************************************************)
(* Preflight gate (services/preflight: runPreflightChecks and its three    *)
(* checks) and the single-call execution wrapper (ai/claude-executor.ts:   *)
(* runClaudePrompt, processMessageStream, writeErrorLog).                  *)
(*                                                                         *)
(* Every action is the code that runs between two suspension points        *)
(* (awaits) of the async functions; its inputs (what a stat call, the      *)
(* config parser, the remote API or a file append answers) are drawn with  *)
(* \E and recorded in the state.                                           *)
(***************************************************************************)
EXTENDS Integers, Sequences, FiniteSets, TLC

VARIABLES
    env,          \* process.env: OPENAI_API_KEY, OPENAI_MODEL ("" = unset)
    \* ---- one run of runPreflightChecks ----
    pfPc,         \* where the run is suspended
    configPath,   \* the configPath argument
    statRepo,     \* what fs.stat(repoPath) answered
    statGit,      \* what fs.stat(`${repoPath}/.git`) answered
    parsed,       \* what parseConfig(configPath) answered
    pfResponse,   \* what the credential request answered
    pfStarted,    \* the checks started, in order
    pfHttp,       \* outbound HTTP requests of the run
    pfResult,     \* <<>> until the run returns, then <<Result>>
    \* ---- invocations of runClaudePrompt, one entry per invocation ----
    pc,           \* where the invocation is suspended
    args,         \* prompt, sourceDir, context, auditSession
    timer,        \* the Timer: state, startTime
    progress,     \* the calls made on the progress manager, in order
    turnCount,    \* runClaudePrompt's let turnCount
    result,       \* runClaudePrompt's let result
    totalCost,    \* runClaudePrompt's let totalCost
    stream,       \* processMessageStream's locals once the response is read
    caught,       \* <<>>, or <<the error the catch block holds>>
    duration,     \* what timer.stop() returned
    response,     \* what the completion request answered
    http,         \* completion requests issued by the invocation
    audit,        \* the records appended to the invocation's audit session
    auditFaults,  \* appends the audit logger failed at and absorbed
    logAttempts,  \* fs.appendFile calls on error.log by the invocation
    outcome,      \* <<>> until the invocation ends, then how it ended
    heartbeat,    \* heartbeat checks made and status lines emitted
    trace,        \* the calls the invocation made or saw settle, in order
    logWritten,   \* <<>>, or <<whether the append to error.log succeeded>>
    errorLog,     \* per source directory, the lines of its error.log
    loaderOff,    \* global.SHANNON_DISABLE_LOADER
    now           \* Date.now()

pfVars == <<pfPc, configPath, statRepo, statGit, parsed, pfResponse,
            pfStarted, pfHttp, pfResult>>

runVars == <<pc, args, timer, progress, turnCount, result, totalCost, stream,
             caught, duration, response, http, audit, auditFaults, logAttempts,
             outcome, heartbeat, trace, logWritten, errorLog, loaderOff, now>>

vars == <<env, pfVars, runVars>>

Undefined == "undefined"
Null == "null"
None == "none"

(***************************************************************************)
(* Errors.  A thrown value is a record of the fields it owns: constructor  *)
(* name and message; a PentestError adds category, retryable and code.  A  *)
(* field the value does not own reads as undefined.  A message is the      *)
(* sequence of its parts (template literals concatenate them), so that     *)
(* "contains a substring" is "has the part".                               *)
(***************************************************************************)
PentestError(message, category, retryable, code) ==
    [name |-> "PentestError", message |-> message, category |-> category,
     retryable |-> retryable, code |-> code]

Error(message) == [name |-> "Error", message |-> message]

\* What fetch() and response.text() reject with on a connection failure
\* (undici: TypeError, the cause in the message).
FetchFailed(sig) == [name |-> "TypeError", message |-> <<"fetch failed", sig>>]

Field(e, f) == IF f \in DOMAIN e THEN e[f] ELSE Undefined

\* ErrorCode members used by the preflight service.
REPO_NOT_FOUND == "REPO_NOT_FOUND"
CONFIG_VALIDATION_FAILED == "CONFIG_VALIDATION_FAILED"
AUTH_FAILED == "AUTH_FAILED"

\* types/result: ok(value), err(error)
ok == [ok |-> TRUE]
err(e) == [ok |-> FALSE, error |-> e]

(***************************************************************************)
(* ErrorClassifier.isRetryableError: a pure function of the error's name,  *)
(* code, status and message substrings; true on the transient signatures   *)
(* (connection resets and timeouts, HTTP 429 and 5xx, rate limiting).      *)
(***************************************************************************)
TransientSignatures ==
    {"ECONNRESET", "ETIMEDOUT", "429", "500", "503", "rate limit"}

isRetryableError(e) ==
    \/ Field(e, "code") \in TransientSignatures
    \/ Field(e, "status") \in TransientSignatures
    \/ \E k \in 1..Len(e.message) : e.message[k] \in TransientSignatures

(***************************************************************************)
(* The inputs of a preflight run.                                          *)
(***************************************************************************)
\* fs.stat resolves with stats of a directory or of another file, or
\* rejects (the path is missing, or cannot be statted).
StatOutcomes == {"dir", "file", "ENOENT", "EACCES"}
StatThrows(s) == s \in {"ENOENT", "EACCES"}

\* string | undefined; the empty string is falsy in `if (configPath)`.
ConfigPaths == {Undefined, "", "shannon.yaml"}
Truthy(s) == s # Undefined /\ s # ""

\* parseConfig resolves, throws a plain Error, or throws an error it
\* classified itself.
ParseOutcomes ==
    { [kind |-> "ok"],
      [kind |-> "throw", error |-> Error(<<"YAML parse error">>)],
      [kind |-> "throw",
       error |-> PentestError(<<"Configuration file not found">>, "config",
                              FALSE, "CONFIG_NOT_FOUND")],
      [kind |-> "throw",
       error |-> PentestError(<<"Configuration validation failed">>, "config",
                              FALSE, CONFIG_VALIDATION_FAILED)] }

\* The remote API's answers to one POST /v1/chat/completions.
ErrorBodies == {"invalid api key", "rate limit"}
HttpStatuses == {"401", "429", "500"}

\* kind "http": a non-2xx response whose body is read; kind "httpAbort": a
\* non-2xx response whose body read (response.text()) rejects; kind
\* "throw": fetch itself rejects.
FailedResponses ==
    [kind : {"http"}, status : HttpStatuses, body : ErrorBodies]
    \cup [kind : {"httpAbort"}, status : {"401"}]
    \cup { [kind |-> "throw", error |-> FetchFailed(s)] :
             s \in {"ECONNRESET", "ETIMEDOUT", "invalid URL"} }

\* Raised with the status left out of the message of a non-2xx answer.
RaisedWithoutStatus(r) ==
    CASE r.kind = "throw" -> r.error
      [] r.kind = "httpAbort" -> FetchFailed("terminated")
      [] r.kind = "http" -> Error(<<"OpenAI API error", r.body>>)

\* The value a failed request makes the code's try block raise: fetch's own
\* rejection, the rejection of response.text(), or
\* new Error(`OpenAI API error (${response.status}): ${errorText}`).
Raised(r) ==
    CASE r.kind = "throw" -> r.error
      [] r.kind = "httpAbort" -> FetchFailed("terminated")
      [] r.kind = "http" -> Error(<<"OpenAI API error", r.status, r.body>>)

PingResponses == {[kind |-> "ok"]} \cup FailedResponses

HasKey == env.OPENAI_API_KEY # ""

Envs == [OPENAI_API_KEY : {"", "sk-test"}, OPENAI_MODEL : {"", "gpt-env"}]

(***************************************************************************)
(* validateRepo                                                            *)
(***************************************************************************)
RepoError(text) == err(PentestError(<<text>>, "config", FALSE, REPO_NOT_FOUND))

\* 1. Check repo directory exists: the result when the first stat settles
\* the check, ok when the check goes on to the second stat.
validateRepoDir(s) ==
    IF StatThrows(s) THEN RepoError("Repository path does not exist")
    ELSE IF s # "dir" THEN RepoError("Repository path is not a directory")
    ELSE ok

\* validateRepoGit without the isDirectory() test: any .git entry passes.
validateRepoGitAnyEntry(s) ==
    IF StatThrows(s) THEN RepoError("Not a git repository (no .git directory)")
    ELSE ok

\* 2. Check .git directory exists.
validateRepoGit(s) ==
    IF StatThrows(s) THEN RepoError("Not a git repository (no .git directory)")
    ELSE IF s # "dir" THEN RepoError("Not a git repository (no .git directory)")
    ELSE ok

(***************************************************************************)
(* validateConfig                                                          *)
(***************************************************************************)
\* validateConfig that wraps whatever parseConfig threw, classified or not.
validateConfigAlwaysWraps(o) ==
    IF o.kind = "ok" THEN ok
    ELSE err(PentestError(<<"Configuration validation failed">> \o o.error.message,
                          "config", FALSE, CONFIG_VALIDATION_FAILED))

validateConfig(o) ==
    IF o.kind = "ok" THEN ok
    ELSE IF o.error.name = "PentestError" THEN err(o.error)
    ELSE err(PentestError(<<"Configuration validation failed">> \o o.error.message,
                          "config", FALSE, CONFIG_VALIDATION_FAILED))

(***************************************************************************)
(* validateCredentials                                                     *)
(***************************************************************************)
NoCredentials ==
    err(PentestError(<<"No API credentials found. Set OPENAI_API_KEY in .env">>,
                     "config", FALSE, AUTH_FAILED))

\* CredentialFailure that attaches AUTH_FAILED to every failure.
CredentialFailureAlwaysCoded(e) ==
    LET retryable == isRetryableError(e) IN
    err(PentestError(
          IF retryable
            THEN <<"Failed to reach OpenAI API. Check your network connection.">>
            ELSE <<"OpenAI API key validation failed">> \o e.message,
          IF retryable THEN "network" ELSE "config",
          retryable,
          AUTH_FAILED))

\* The catch block: reclassify what the request raised.
CredentialFailure(e) ==
    LET retryable == isRetryableError(e) IN
    err(PentestError(
          IF retryable
            THEN <<"Failed to reach OpenAI API. Check your network connection.">>
            ELSE <<"OpenAI API key validation failed">> \o e.message,
          IF retryable THEN "network" ELSE "config",
          retryable,
          IF retryable THEN Undefined ELSE AUTH_FAILED))

validateCredentialsResponse(r) ==
    IF r.kind = "ok" THEN ok ELSE CredentialFailure(Raised(r))

\* StartCredentials without the early return: the request is sent with
\* whatever the environment holds.
StartCredentialsNoKeyCheck(started) ==
    /\ pfStarted' = Append(started, "credentials")
    /\ pfHttp' = pfHttp + 1
    /\ pfPc' = "fetch"
    /\ pfResult' = pfResult

\* validateCredentials up to its await: the key check, then the request.
StartCredentials(started) ==
    /\ pfStarted' = Append(started, "credentials")
    /\ IF ~HasKey
         THEN /\ pfResult' = <<NoCredentials>>
              /\ pfPc' = "done"
              /\ pfHttp' = pfHttp
         ELSE /\ pfHttp' = pfHttp + 1
              /\ pfPc' = "fetch"
              /\ pfResult' = pfResult

(***************************************************************************)
(* runPreflightChecks, one action per suspension point                     *)
(***************************************************************************)
\* The call: 1. Repository check, up to fs.stat(repoPath).
runPreflightChecks(cp) ==
    /\ pfPc = "idle"
    /\ pfPc' = "statRepo"
    /\ configPath' = cp
    /\ pfStarted' = <<"repo">>
    /\ UNCHANGED <<runVars, env, statRepo, statGit, parsed, pfResponse, pfHttp, pfResult>>

\* fs.stat(repoPath) settles: fail, or go on to fs.stat(`${repoPath}/.git`).
StatRepo(s) ==
    /\ pfPc = "statRepo"
    /\ statRepo' = s
    /\ IF validateRepoDir(s).ok
         THEN pfPc' = "statGit" /\ pfResult' = pfResult
         ELSE pfPc' = "done" /\ pfResult' = <<validateRepoDir(s)>>
    /\ UNCHANGED <<runVars, env, configPath, statGit, parsed, pfResponse, pfStarted, pfHttp>>

\* fs.stat(.git) settles: fail, or 2. Config check if (configPath), else
\* 3. Credential check.
StatGit(s) ==
    /\ pfPc = "statGit"
    /\ statGit' = s
    /\ IF ~validateRepoGit(s).ok
         THEN /\ pfPc' = "done"
              /\ pfResult' = <<validateRepoGit(s)>>
              /\ UNCHANGED <<pfStarted, pfHttp>>
         ELSE IF Truthy(configPath)
         THEN /\ pfPc' = "parse"
              /\ pfStarted' = Append(pfStarted, "config")
              /\ UNCHANGED <<pfResult, pfHttp>>
         ELSE StartCredentials(pfStarted)
    /\ UNCHANGED <<runVars, env, configPath, statRepo, parsed, pfResponse>>

\* ParseConfig without `if (!configResult.ok) return configResult`.
ParseConfigNoReturn(o) ==
    /\ pfPc = "parse"
    /\ parsed' = o
    /\ StartCredentials(pfStarted)
    /\ UNCHANGED <<runVars, env, configPath, statRepo, statGit, pfResponse>>

\* parseConfig(configPath) settles: fail, or 3. Credential check.
ParseConfig(o) ==
    /\ pfPc = "parse"
    /\ parsed' = o
    /\ IF ~validateConfig(o).ok
         THEN /\ pfPc' = "done"
              /\ pfResult' = <<validateConfig(o)>>
              /\ UNCHANGED <<pfStarted, pfHttp>>
         ELSE StartCredentials(pfStarted)
    /\ UNCHANGED <<runVars, env, configPath, statRepo, statGit, pfResponse>>

\* CredentialResponse without validateCredentials' try/catch: what the
\* request raises leaves runPreflightChecks as a rejection.
CredentialResponseNoCatch(r) ==
    /\ pfPc = "fetch"
    /\ pfResponse' = r
    /\ IF r.kind = "ok"
         THEN pfPc' = "done" /\ pfResult' = <<ok>>
         ELSE pfPc' = "thrown" /\ pfResult' = pfResult
    /\ UNCHANGED <<runVars, env, configPath, statRepo, statGit, parsed, pfStarted, pfHttp>>

\* The credential request settles; runPreflightChecks returns.
CredentialResponse(r) ==
    /\ pfPc = "fetch"
    /\ pfResponse' = r
    /\ pfPc' = "done"
    /\ pfResult' = <<validateCredentialsResponse(r)>>
    /\ UNCHANGED <<runVars, env, configPath, statRepo, statGit, parsed, pfStarted, pfHttp>>

(***************************************************************************)
(* runClaudePrompt: inputs                                                 *)
(***************************************************************************)
Invocations == {1, 2}

\* Text is the sequence of its parts; s.slice(0, n) keeps the first n.
Min(a, b) == IF a < b THEN a ELSE b
Slice(s, n) == SubSeq(s, 1, Min(Len(s), n))

RESULT_PREVIEW == 100
PROMPT_PREVIEW == 100
LOG_PROMPT_PREVIEW == 200
HEARTBEAT_INTERVAL == 30000

SourceDirs == {"/repo"}
CallArgs ==
    [prompt : {<<"find", "bugs">>}, sourceDir : SourceDirs,
     context : {<<>>, <<"ctx">>}, auditSession : {Null, "session"}]

\* const fullPrompt = context ? `${context}\n\n${prompt}` : prompt
FullPrompt(a) ==
    IF a.context # <<>> THEN a.context \o <<"\n\n">> \o a.prompt ELSE a.prompt

\* The degenerate "nothing to show" text of a session cut by a spending cap.
CapSignatures == {"spending cap"}

\* The parsed body of a 2xx answer: model and choices[0].message.content,
\* either of which may be absent.
Completions ==
    [model : {Undefined, "gpt-4.1-2025"},
     content : {<<"pong">>, <<"spending cap">>, <<"spending cap", "rate limit">>}]
    \cup [model : {Undefined, "gpt-4.1-2025"}]

\* kind "ok": 2xx with a JSON body; kind "badJson": 2xx whose body
\* response.json() rejects.
CompletionResponses ==
    [kind : {"ok"}, completion : Completions]
    \cup {[kind |-> "badJson"]}
    \cup [kind : {"http"}, status : {"401", "429"}, body : {"invalid api key"}]
    \cup [kind : {"httpAbort"}, status : {"401"}]
    \cup { [kind |-> "throw", error |-> FetchFailed(s)] :
             s \in {"ECONNRESET", "invalid URL"} }

\* completion.choices?.[0]?.message?.content ?? ''
Content(c) == IF "content" \in DOMAIN c THEN c.content ELSE <<>>

\* options.model: process.env.OPENAI_MODEL || 'gpt-4.1'
OptionsModel == IF env.OPENAI_MODEL # "" THEN env.OPENAI_MODEL ELSE "gpt-4.1"

RaisedByCompletion(r) ==
    IF r.kind = "badJson"
    THEN [name |-> "SyntaxError", message |-> <<"Unexpected token">>]
    ELSE Raised(r)

(***************************************************************************)
(* Collaborators outside the three files: Timer, billing detection, the    *)
(* audit logger.                                                           *)
(***************************************************************************)
\* billing-detection: turns > 0, cost = 0 and the text matches the pattern.
isSpendingCapBehavior(turns, cost, text) ==
    /\ turns > 0
    /\ cost = 0
    /\ \E k \in 1..Len(text) : text[k] \in CapSignatures

\* new Timer(name) starts the clock; stop() returns the elapsed time.
NewTimer == [state |-> "running", startTime |-> now]
TimerStop(t) == now - t.startTime

\* createAuditLogger(auditSession): appends to the session when one is
\* bound, a no-op otherwise; an internal failure (appended = FALSE) is
\* absorbed, never thrown.
AuditAppend(log, session, appended, record) ==
    IF session # Null /\ appended THEN Append(log, record) ELSE log

AuditFault(n, session, appended) ==
    IF session # Null /\ ~appended THEN n + 1 ELSE n

(***************************************************************************)
(* runClaudePrompt / processMessageStream / writeErrorLog                  *)
(***************************************************************************)
MissingKey ==
    PentestError(<<"OPENAI_API_KEY is not set. Configure OpenAI credentials before running agents.">>,
                 "config", FALSE, Undefined)

SpendingCap(turns, text) ==
    PentestError(<<"Spending cap likely reached", "turns", "cost=$0">>
                   \o Slice(text, RESULT_PREVIEW),
                 "billing", TRUE, Undefined)

\* The two shapes of ClaudePromptResult that runClaudePrompt returns.
Success(text, d, turns, cost, model, apiErrorDetected) ==
    [result |-> text, success |-> TRUE, duration |-> d, turns |-> turns,
     cost |-> cost, model |-> model, partialCost |-> cost,
     apiErrorDetected |-> apiErrorDetected]

\* Failure that also reports the turns made, as Success does.
FailureWithTurns(e, prompt, d, cost) ==
    [error |-> e.message, errorType |-> e.name,
     prompt |-> Slice(prompt, PROMPT_PREVIEW) \o <<"...">>,
     success |-> FALSE, duration |-> d, turns |-> 0, cost |-> cost,
     retryable |-> isRetryableError(e)]

Failure(e, prompt, d, cost) ==
    [error |-> e.message, errorType |-> e.name,
     prompt |-> Slice(prompt, PROMPT_PREVIEW) \o <<"...">>,
     success |-> FALSE, duration |-> d, cost |-> cost,
     retryable |-> isRetryableError(e)]

Returned(v) == <<[kind |-> "return", value |-> v]>>
Thrown(e) == <<[kind |-> "throw", error |-> e]>>

\* The line writeErrorLog appends.
ErrorLogLine(e, sourceDir, prompt, d) ==
    [timestamp |-> now, agent |-> "claude-executor",
     error |-> [name |-> e.name, message |-> e.message,
                code |-> Field(e, "code"), status |-> Field(e, "status")],
     context |-> [sourceDir |-> sourceDir,
                  prompt |-> Slice(prompt, LOG_PROMPT_PREVIEW) \o <<"...">>,
                  retryable |-> isRetryableError(e)],
     duration |-> d]

\* StartRequestEvents with progress.start() made after the request went out.
StartRequestEventsLateStart == <<"heartbeat", "fetch", "progress.start">>

\* The calls, in the order the code makes them.
StartRequestEvents == <<"progress.start", "heartbeat", "fetch">>
CatchEvents == <<"timer.stop">>
StreamReturnsEvents(m) ==
    IF isSpendingCapBehavior(m.turnCount, m.cost, m.result)
    THEN CatchEvents
    ELSE <<"timer.stop", "progress.finish", "return">>

\* Entering the catch block with e: timer.stop(), then the await of
\* auditLogger.logError.
Catch(i, e) ==
    /\ duration' = [duration EXCEPT ![i] = TimerStop(timer[i])]
    /\ timer' = [timer EXCEPT ![i].state = "stopped"]
    /\ caught' = [caught EXCEPT ![i] = <<e>>]
    /\ pc' = [pc EXCEPT ![i] = "logError"]

\* progress.start() and processMessageStream up to its await of fetch: the
\* heartbeat check, then the request.
StartRequest(i) ==
    /\ progress' = [progress EXCEPT ![i] = Append(@, "start")]
    /\ LET lastHeartbeat == now
           nowRead == now
           beat == loaderOff /\ nowRead - lastHeartbeat > HEARTBEAT_INTERVAL
       IN heartbeat' = [heartbeat EXCEPT
                          ![i].checks = @ + 1,
                          ![i].lines = IF beat THEN @ + 1 ELSE @]
    /\ http' = [http EXCEPT ![i] = @ + 1]
    /\ pc' = [pc EXCEPT ![i] = "fetch"]
    /\ outcome' = outcome

\* runClaudePrompt without the OPENAI_API_KEY test: the request goes out
\* with an empty bearer token.
runClaudePromptNoKeyCheck(i, a) ==
    /\ pc[i] = "idle"
    /\ args' = [args EXCEPT ![i] = a]
    /\ timer' = [timer EXCEPT ![i] = NewTimer]
    /\ StartRequest(i)
    /\ UNCHANGED <<turnCount, result, totalCost, stream, caught, duration,
                   response, audit, auditFaults, logAttempts, errorLog,
                   loaderOff, now>>
    /\ trace' = [trace EXCEPT ![i] = @ \o (<<"new Timer">> \o StartRequestEvents)]
    /\ logWritten' = logWritten
    /\ UNCHANGED <<env, pfVars>>

\* The call: steps 1-3, then the request.  A missing key throws before the
\* try block is entered.
runClaudePrompt(i, a) ==
    /\ pc[i] = "idle"
    /\ args' = [args EXCEPT ![i] = a]
    /\ timer' = [timer EXCEPT ![i] = NewTimer]
    /\ IF ~HasKey
         THEN /\ outcome' = [outcome EXCEPT ![i] = Thrown(MissingKey)]
              /\ pc' = [pc EXCEPT ![i] = "done"]
              /\ UNCHANGED <<progress, http, heartbeat>>
         ELSE StartRequest(i)
    /\ UNCHANGED <<turnCount, result, totalCost, stream, caught, duration,
                   response, audit, auditFaults, logAttempts, errorLog,
                   loaderOff, now>>
    /\ trace' = [trace EXCEPT ![i] = @ \o (<<"new Timer">> \o
                                        IF ~HasKey THEN <<"throw">>
                                        ELSE StartRequestEvents)]
    /\ logWritten' = logWritten
    /\ UNCHANGED <<env, pfVars>>

\* The request settles.  A failure is raised into the catch block; a 2xx
\* answer is read into processMessageStream's locals, up to the await of
\* auditLogger.logLlmResponse.
CompletionResponse(i, r) ==
    /\ pc[i] = "fetch"
    /\ response' = [response EXCEPT ![i] = r]
    /\ IF r.kind # "ok"
         THEN /\ Catch(i, RaisedByCompletion(r))
              /\ stream' = stream
         ELSE /\ stream' = [stream EXCEPT ![i] =
                   <<[turnCount |-> 1,
                      result |-> Content(r.completion),
                      apiErrorDetected |-> FALSE,
                      cost |-> 0,
                      model |-> IF r.completion.model # Undefined
                                  THEN r.completion.model
                                  ELSE OptionsModel]>>]
              /\ pc' = [pc EXCEPT ![i] = "logResponse"]
              /\ UNCHANGED <<timer, caught, duration>>
    /\ UNCHANGED <<args, progress, turnCount, result, totalCost, http, audit,
                   auditFaults, logAttempts, outcome, heartbeat, errorLog,
                   loaderOff, now>>
    /\ trace' = [trace EXCEPT ![i] = @ \o (<<"fetch settled">> \o
                                        IF r.kind # "ok" THEN CatchEvents
                                        ELSE <<>>)]
    /\ logWritten' = logWritten
    /\ UNCHANGED <<env, pfVars>>

\* StreamReturns without the spending-cap safeguard.
StreamReturnsNoCapCheck(i, m) ==
    /\ turnCount' = [turnCount EXCEPT ![i] = m.turnCount]
    /\ result' = [result EXCEPT ![i] = <<m.result>>]
    /\ totalCost' = [totalCost EXCEPT ![i] = m.cost]
    /\ duration' = [duration EXCEPT ![i] = TimerStop(timer[i])]
    /\ timer' = [timer EXCEPT ![i].state = "stopped"]
    /\ progress' = [progress EXCEPT ![i] = Append(@, "finish")]
    /\ outcome' = [outcome EXCEPT ![i] =
          Returned(Success(m.result, TimerStop(timer[i]), m.turnCount,
                           m.cost, m.model, m.apiErrorDetected))]
    /\ pc' = [pc EXCEPT ![i] = "done"]
    /\ caught' = caught

\* processMessageStream returns m to runClaudePrompt: steps 7 and 8, or the
\* spending-cap error raised into the catch block.
StreamReturns(i, m) ==
    /\ turnCount' = [turnCount EXCEPT ![i] = m.turnCount]
    /\ result' = [result EXCEPT ![i] = <<m.result>>]
    /\ totalCost' = [totalCost EXCEPT ![i] = m.cost]
    /\ IF isSpendingCapBehavior(m.turnCount, m.cost, m.result)
         THEN /\ Catch(i, SpendingCap(m.turnCount, m.result))
              /\ UNCHANGED <<progress, outcome>>
         ELSE /\ duration' = [duration EXCEPT ![i] = TimerStop(timer[i])]
              /\ timer' = [timer EXCEPT ![i].state = "stopped"]
              /\ progress' = [progress EXCEPT ![i] = Append(@, "finish")]
              /\ outcome' = [outcome EXCEPT ![i] =
                    Returned(Success(m.result, TimerStop(timer[i]), m.turnCount,
                                     m.cost, m.model, m.apiErrorDetected))]
              /\ pc' = [pc EXCEPT ![i] = "done"]
              /\ caught' = caught

\* LogLlmResponse with a logger that lets its failure out: the rejection
\* of the awaited append lands in runClaudePrompt's catch block.
LogLlmResponseAuditThrows(i, appended) ==
    /\ pc[i] = "logResponse"
    /\ audit' = [audit EXCEPT ![i] =
          AuditAppend(@, args[i].auditSession, appended,
                      [type |-> "llm_response",
                       turnIndex |-> stream[i][1].turnCount,
                       responseText |-> stream[i][1].result])]
    /\ auditFaults' = [auditFaults EXCEPT ![i] =
          AuditFault(@, args[i].auditSession, appended)]
    /\ IF args[i].auditSession # Null /\ ~appended
         THEN /\ Catch(i, Error(<<"audit append failed">>))
              /\ UNCHANGED <<turnCount, result, totalCost, progress, outcome>>
         ELSE StreamReturns(i, stream[i][1])
    /\ UNCHANGED <<args, stream, response, http, logAttempts, heartbeat,
                   errorLog, loaderOff, now>>
    /\ trace' = [trace EXCEPT ![i] = @ \o (<<"logLlmResponse">> \o
                                        IF args[i].auditSession # Null /\ ~appended
                                        THEN CatchEvents
                                        ELSE StreamReturnsEvents(stream[i][1]))]
    /\ logWritten' = logWritten
    /\ UNCHANGED <<env, pfVars>>

\* auditLogger.logLlmResponse settles and processMessageStream returns.
LogLlmResponse(i, appended) ==
    /\ pc[i] = "logResponse"
    /\ audit' = [audit EXCEPT ![i] =
          AuditAppend(@, args[i].auditSession, appended,
                      [type |-> "llm_response",
                       turnIndex |-> stream[i][1].turnCount,
                       responseText |-> stream[i][1].result])]
    /\ auditFaults' = [auditFaults EXCEPT ![i] =
          AuditFault(@, args[i].auditSession, appended)]
    /\ StreamReturns(i, stream[i][1])
    /\ UNCHANGED <<args, stream, response, http, logAttempts, heartbeat,
                   errorLog, loaderOff, now>>
    /\ trace' = [trace EXCEPT ![i] = @ \o (<<"logLlmResponse">> \o
                                        StreamReturnsEvents(stream[i][1]))]
    /\ logWritten' = logWritten
    /\ UNCHANGED <<env, pfVars>>

\* LogError without progress.stop().
LogErrorNoStop(i, appended) ==
    /\ pc[i] = "logError"
    /\ audit' = [audit EXCEPT ![i] =
          AuditAppend(@, args[i].auditSession, appended,
                      [type |-> "error", error |-> caught[i][1],
                       duration |-> duration[i], turnCount |-> turnCount[i]])]
    /\ auditFaults' = [auditFaults EXCEPT ![i] =
          AuditFault(@, args[i].auditSession, appended)]
    /\ logAttempts' = [logAttempts EXCEPT ![i] = @ + 1]
    /\ pc' = [pc EXCEPT ![i] = "writeErrorLog"]
    /\ trace' = [trace EXCEPT ![i] = @ \o <<"logError", "appendFile">>]
    /\ UNCHANGED <<args, timer, progress, turnCount, result, totalCost, stream,
                   caught, duration, response, http, outcome, heartbeat,
                   logWritten, errorLog, loaderOff, now>>
    /\ UNCHANGED <<env, pfVars>>

\* auditLogger.logError settles: progress.stop(), the error output, and
\* writeErrorLog up to its await of fs.appendFile.
LogError(i, appended) ==
    /\ pc[i] = "logError"
    /\ audit' = [audit EXCEPT ![i] =
          AuditAppend(@, args[i].auditSession, appended,
                      [type |-> "error", error |-> caught[i][1],
                       duration |-> duration[i], turnCount |-> turnCount[i]])]
    /\ auditFaults' = [auditFaults EXCEPT ![i] =
          AuditFault(@, args[i].auditSession, appended)]
    /\ progress' = [progress EXCEPT ![i] = Append(@, "stop")]
    /\ logAttempts' = [logAttempts EXCEPT ![i] = @ + 1]
    /\ pc' = [pc EXCEPT ![i] = "writeErrorLog"]
    /\ UNCHANGED <<args, timer, turnCount, result, totalCost, stream, caught,
                   duration, response, http, outcome, heartbeat, errorLog,
                   loaderOff, now>>
    /\ trace' = [trace EXCEPT ![i] = @ \o <<"logError", "progress.stop", "appendFile">>]
    /\ logWritten' = logWritten
    /\ UNCHANGED <<env, pfVars>>

\* WriteErrorLog without writeErrorLog's try/catch: a rejected append
\* rejects the invocation.
WriteErrorLogNoCatch(i, written) ==
    /\ pc[i] = "writeErrorLog"
    /\ errorLog' =
         IF written
         THEN [errorLog EXCEPT ![args[i].sourceDir] =
                 Append(@, ErrorLogLine(caught[i][1], args[i].sourceDir,
                                        FullPrompt(args[i]), duration[i]))]
         ELSE errorLog
    /\ outcome' = [outcome EXCEPT ![i] =
          IF written
          THEN Returned(Failure(caught[i][1], FullPrompt(args[i]), duration[i],
                                totalCost[i]))
          ELSE Thrown(Error(<<"EACCES", "error.log">>))]
    /\ pc' = [pc EXCEPT ![i] = "done"]
    /\ UNCHANGED <<args, timer, progress, turnCount, result, totalCost, stream,
                   caught, duration, response, http, audit, auditFaults,
                   logAttempts, heartbeat, loaderOff, now>>
    /\ trace' = [trace EXCEPT ![i] = @ \o (<<"appendFile settled">> \o
                                        IF written THEN <<"return">> ELSE <<"throw">>)]
    /\ logWritten' = [logWritten EXCEPT ![i] = <<written>>]
    /\ UNCHANGED <<env, pfVars>>

\* fs.appendFile settles (a rejection is swallowed by writeErrorLog's own
\* catch) and runClaudePrompt returns the failure.
WriteErrorLog(i, written) ==
    /\ pc[i] = "writeErrorLog"
    /\ errorLog' =
         IF written
         THEN [errorLog EXCEPT ![args[i].sourceDir] =
                 Append(@, ErrorLogLine(caught[i][1], args[i].sourceDir,
                                        FullPrompt(args[i]), duration[i]))]
         ELSE errorLog
    /\ outcome' = [outcome EXCEPT ![i] =
          Returned(Failure(caught[i][1], FullPrompt(args[i]), duration[i],
                           totalCost[i]))]
    /\ pc' = [pc EXCEPT ![i] = "done"]
    /\ UNCHANGED <<args, timer, progress, turnCount, result, totalCost, stream,
                   caught, duration, response, http, audit, auditFaults,
                   logAttempts, heartbeat, loaderOff, now>>
    /\ trace' = [trace EXCEPT ![i] = @ \o <<"appendFile settled", "return">>]
    /\ logWritten' = [logWritten EXCEPT ![i] = <<written>>]
    /\ UNCHANGED <<env, pfVars>>

\* Wall-clock time passes.
TickMs == 20000
MaxTicks == 2

\* Tick with the heartbeat on a repeating timer: a pending invocation past
\* the interval gets its status line.
TickWithHeartbeat ==
    /\ now < MaxTicks * TickMs
    /\ now' = now + TickMs
    /\ heartbeat' =
         [i \in Invocations |->
            IF /\ pc[i] = "fetch"
               /\ loaderOff
               /\ now' - timer[i].startTime > HEARTBEAT_INTERVAL
            THEN [checks |-> heartbeat[i].checks + 1,
                  lines |-> heartbeat[i].lines + 1]
            ELSE heartbeat[i]]
    /\ UNCHANGED <<pc, args, timer, progress, turnCount, result, totalCost,
                   stream, caught, duration, response, http, audit, auditFaults,
                   logAttempts, outcome, trace, logWritten, errorLog, loaderOff>>
    /\ UNCHANGED <<env, pfVars>>

Tick ==
    /\ now < MaxTicks * TickMs
    /\ now' = now + TickMs
    /\ UNCHANGED <<pc, args, timer, progress, turnCount, result, totalCost,
                   stream, caught, duration, response, http, audit, auditFaults,
                   logAttempts, outcome, heartbeat, errorLog, loaderOff>>
    /\ UNCHANGED <<trace, logWritten>>
    /\ UNCHANGED <<env, pfVars>>

(***************************************************************************)
(* Specifications                                                          *)
(***************************************************************************)
PreflightIdle ==
    /\ pfPc = "idle"
    /\ configPath = Undefined
    /\ statRepo = None
    /\ statGit = None
    /\ parsed = [kind |-> None]
    /\ pfResponse = [kind |-> None]
    /\ pfStarted = <<>>
    /\ pfHttp = 0
    /\ pfResult = <<>>

PromptIdle ==
    /\ pc = [i \in Invocations |-> "idle"]
    /\ args = [i \in Invocations |-> [kind |-> None]]
    /\ timer = [i \in Invocations |-> [state |-> None, startTime |-> 0]]
    /\ progress = [i \in Invocations |-> <<>>]
    /\ turnCount = [i \in Invocations |-> 0]
    /\ result = [i \in Invocations |-> <<>>]
    /\ totalCost = [i \in Invocations |-> 0]
    /\ stream = [i \in Invocations |-> <<>>]
    /\ caught = [i \in Invocations |-> <<>>]
    /\ duration = [i \in Invocations |-> 0]
    /\ response = [i \in Invocations |-> [kind |-> None]]
    /\ http = [i \in Invocations |-> 0]
    /\ audit = [i \in Invocations |-> <<>>]
    /\ auditFaults = [i \in Invocations |-> 0]
    /\ logAttempts = [i \in Invocations |-> 0]
    /\ outcome = [i \in Invocations |-> <<>>]
    /\ heartbeat = [i \in Invocations |-> [checks |-> 0, lines |-> 0]]
    /\ trace = [i \in Invocations |-> <<>>]
    /\ logWritten = [i \in Invocations |-> <<>>]
    /\ errorLog = [d \in SourceDirs |-> <<>>]
    /\ now = 0

Init ==
    /\ env \in Envs
    /\ loaderOff \in BOOLEAN
    /\ PreflightIdle
    /\ PromptIdle

PreflightNext ==
    \/ \E cp \in ConfigPaths : runPreflightChecks(cp)
    \/ \E s \in StatOutcomes : StatRepo(s)
    \/ \E s \in StatOutcomes : StatGit(s)
    \/ \E o \in ParseOutcomes : ParseConfig(o)
    \/ \E r \in PingResponses : CredentialResponse(r)

\* One run of the preflight gate.
SpecPreflight == Init /\ [][PreflightNext]_vars

PromptNext(I) ==
    \/ \E i \in I, a \in CallArgs : runClaudePrompt(i, a)
    \/ \E i \in I, r \in CompletionResponses : CompletionResponse(i, r)
    \/ \E i \in I, appended \in BOOLEAN : LogLlmResponse(i, appended)
    \/ \E i \in I, appended \in BOOLEAN : LogError(i, appended)
    \/ \E i \in I, written \in BOOLEAN : WriteErrorLog(i, written)
    \/ Tick

SoloNext == PromptNext({1})

\* One invocation of runClaudePrompt.
SpecPrompt == Init /\ [][SoloNext]_vars

\* Two callers on one source directory, and the answers that tell the
\* outcomes apart: a success, a spending cap, a rate limit.
ConcurrentArgs ==
    [prompt : {<<"find", "bugs">>}, sourceDir : SourceDirs,
     context : {<<>>}, auditSession : {"session"}]
ConcurrentResponses ==
    {[kind |-> "ok", completion |-> [model |-> Undefined, content |-> c]] :
       c \in {<<"pong">>, <<"spending cap">>}}
    \cup {[kind |-> "http", status |-> "429", body |-> "invalid api key"]}

ConcurrentNext ==
    \/ \E i \in Invocations, a \in ConcurrentArgs : runClaudePrompt(i, a)
    \/ \E i \in Invocations, r \in ConcurrentResponses :
          CompletionResponse(i, r)
    \/ \E i \in Invocations, appended \in BOOLEAN : LogLlmResponse(i, appended)
    \/ \E i \in Invocations, appended \in BOOLEAN : LogError(i, appended)
    \/ \E i \in Invocations, written \in BOOLEAN : WriteErrorLog(i, written)
    \/ Tick

\* Two invocations of runClaudePrompt, interleaved at their awaits.
SpecConcurrent == Init /\ [][ConcurrentNext]_vars

(***************************************************************************)
(* The preflight gate's properties                                         *)
(***************************************************************************)
\* What the recorded answers say about each check, independently of the
\* result the run computed.
RepoFailed ==
    \/ statRepo \in StatOutcomes \ {"dir"}
    \/ statGit \in StatOutcomes \ {"dir"}
RepoPassed == statRepo = "dir" /\ statGit = "dir"
ConfigFailed == parsed.kind = "throw"
ConfigPassed == parsed.kind = "ok"
CredentialsFailed ==
    \/ pfPc = "done" /\ ~HasKey /\ pfResponse.kind = None
    \/ pfResponse.kind \notin {None, "ok"}

InStarted(c) == \E k \in 1..Len(pfStarted) : pfStarted[k] = c

\* C1: runPreflightChecks starts its checks in the order repository, config
\* (only for a config path that is supplied, i.e. truthy), credentials; a
\* check starts only once every earlier one has passed, and the run returns
\* the failure of the first check that fails.
PreflightOrder ==
    /\ pfStarted \in {<<>>, <<"repo">>, <<"repo", "config">>,
                      <<"repo", "credentials">>,
                      <<"repo", "config", "credentials">>}
    /\ InStarted("config") <=> (RepoPassed /\ Truthy(configPath))
    /\ InStarted("credentials") <=>
          (RepoPassed /\ (Truthy(configPath) => ConfigPassed))
    /\ pfPc = "done" =>
          LET r == pfResult[1] IN
          IF RepoFailed
            THEN ~r.ok /\ r.error.code = REPO_NOT_FOUND
            ELSE IF ConfigFailed
            THEN /\ ~r.ok
                 /\ \/ r.error = parsed.error
                    \/ r.error.code = CONFIG_VALIDATION_FAILED
            ELSE IF CredentialsFailed
            THEN /\ ~r.ok
                 /\ r.error.code = AUTH_FAILED \/ r.error.category = "network"
            ELSE r.ok

\* A run whose config check failed: it returned with credentials unstarted.
PreflightOrderWitness ==
    /\ pfPc = "done"
    /\ ConfigFailed
    /\ pfStarted = <<"repo", "config">>
    /\ HasKey

\* C2: a run of runPreflightChecks sends at most one HTTP request, and none
\* when the repository check fails, the config check fails or
\* OPENAI_API_KEY is absent.
PreflightHttpBound ==
    /\ pfHttp <= 1
    /\ (RepoFailed \/ ConfigFailed \/ ~HasKey) => pfHttp = 0
    /\ (pfPc = "done" /\ pfResponse.kind # None) => pfHttp = 1

\* A run that reached the credential check without a key and returned.
PreflightHttpBoundWitness ==
    /\ pfPc = "done"
    /\ RepoPassed
    /\ InStarted("credentials")
    /\ ~HasKey
    /\ pfHttp = 0

\* C10: the repository check passes exactly when repoPath and repoPath/.git
\* both stat as directories; any other answer of a stat call, a rejection
\* included, ends the run with a returned failure of category config,
\* retryable false, code REPO_NOT_FOUND.
RepoCheckSettled == pfPc \notin {"idle", "statRepo", "statGit"}

RepoCheckOutcome ==
    RepoCheckSettled =>
       /\ (Len(pfStarted) >= 2) <=> (statRepo = "dir" /\ statGit = "dir")
       /\ ~(statRepo = "dir" /\ statGit = "dir") =>
             /\ pfPc = "done"
             /\ pfStarted = <<"repo">>
             /\ Len(pfResult) = 1
             /\ ~pfResult[1].ok
             /\ pfResult[1].error.category = "config"
             /\ pfResult[1].error.retryable = FALSE
             /\ pfResult[1].error.code = REPO_NOT_FOUND

\* The repository is a directory whose .git is a plain file.
RepoCheckOutcomeWitness ==
    /\ pfPc = "done"
    /\ statRepo = "dir"
    /\ statGit = "file"
    /\ ~pfResult[1].ok

(***************************************************************************)
(* The execution wrapper's properties                                      *)
(***************************************************************************)
Ended(i) == outcome[i] # <<>>
ReturnedValue(i) == outcome[i][1].value
Answered(i) == response[i].kind # None

\* The spending-cap heuristic triggers on what a 2xx answer carried.
CapTriggered(i) ==
    /\ response[i].kind = "ok"
    /\ isSpendingCapBehavior(1, 0, Content(response[i].completion))

\* The error the invocation met first.
PrimaryError(i) ==
    IF response[i].kind = "ok"
    THEN SpendingCap(1, Content(response[i].completion))
    ELSE RaisedByCompletion(response[i])

\* C3: runClaudePrompt never throws to its caller; every failure, a missing
\* OPENAI_API_KEY included, comes back as a returned failure, which for the
\* missing key is non-retryable.
NeverRethrows ==
    \A i \in Invocations :
       Ended(i) =>
          /\ outcome[i][1].kind = "return"
          /\ ~HasKey =>
                /\ ~ReturnedValue(i).success
                /\ ReturnedValue(i).retryable = FALSE

\* C4: an invocation issues at most one completion request: exactly one
\* when OPENAI_API_KEY is present, none when it is absent, and never a
\* second one whatever the answer.
OneCompletionRequest ==
    \A i \in Invocations :
       /\ http[i] <= 1
       /\ pc[i] # "idle" => http[i] = (IF HasKey THEN 1 ELSE 0)

\* An invocation that was answered 429 and ended with one request made.
OneCompletionRequestWitness ==
    /\ pc[1] = "done"
    /\ response[1].kind = "http"
    /\ response[1].status = "429"
    /\ http[1] = 1

\* C5: when the answer is a 2xx and the spending-cap heuristic triggers,
\* the invocation returns a failure for a billing error with
\* retryable = true, never a success.
SpendingCapIsRetryableFailure ==
    \A i \in Invocations :
       (pc[i] = "done" /\ CapTriggered(i)) =>
          /\ outcome[i][1].kind = "return"
          /\ ~ReturnedValue(i).success
          /\ caught[i][1].category = "billing"
          /\ ReturnedValue(i).retryable = TRUE

\* C6: an invocation that ends in failure has stopped its timer, appended
\* exactly one audit error record (a session being bound and the logger not
\* failing) and attempted exactly one append to error.log.
IsErrorRecord(rec) == rec.type = "error"
ErrorRecords(i) == {k \in 1..Len(audit[i]) : IsErrorRecord(audit[i][k])}

EndedInFailure(i) ==
    /\ Ended(i)
    /\ outcome[i][1].kind = "throw" \/ ~ReturnedValue(i).success

FailureIsLogged ==
    \A i \in Invocations :
       EndedInFailure(i) =>
          /\ timer[i].state = "stopped"
          /\ (args[i].auditSession # Null /\ auditFaults[i] = 0) =>
                Cardinality(ErrorRecords(i)) = 1
          /\ logAttempts[i] = 1

ErrorLogFailureSwallowed ==
    \A i \in Invocations :
       (pc[i] = "done" /\ caught[i] # <<>>) =>
          outcome[i] =
             Returned([error |-> caught[i][1].message,
                       errorType |-> caught[i][1].name,
                       prompt |-> Slice(FullPrompt(args[i]), PROMPT_PREVIEW)
                                    \o <<"...">>,
                       success |-> FALSE,
                       duration |-> duration[i],
                       cost |-> totalCost[i],
                       retryable |-> isRetryableError(caught[i][1])])

\* An invocation whose one append to error.log failed, and which returned.
ErrorLogFailureSwallowedWitness ==
    /\ pc[1] = "done"
    /\ caught[1] # <<>>
    /\ logAttempts[1] = 1
    /\ errorLog[args[1].sourceDir] = <<>>
    /\ outcome[1][1].kind = "return"

\* C9: a returned result has one shape: success with result, turns and
\* model and none of error, errorType, retryable; or failure with error,
\* errorType and retryable and none of result, turns; cost is in both.
OneShape ==
    \A i \in Invocations :
       (Ended(i) /\ outcome[i][1].kind = "return") =>
          LET v == ReturnedValue(i) IN
          /\ "cost" \in DOMAIN v
          /\ IF v.success
               THEN /\ {"result", "turns", "model"} \subseteq DOMAIN v
                    /\ DOMAIN v \cap {"error", "errorType", "retryable"} = {}
                    /\ v.model # Undefined
               ELSE /\ {"error", "errorType", "retryable"} \subseteq DOMAIN v
                    /\ DOMAIN v \cap {"result", "turns"} = {}

\* A returned failure.
OneShapeWitness ==
    /\ Ended(1)
    /\ outcome[1][1].kind = "return"
    /\ ~ReturnedValue(1).success
    /\ ReturnedValue(1).cost = 0

(***************************************************************************)
(* The preflight gate's properties, continued                              *)
(***************************************************************************)
IsConfigValidationFailure(e) ==
    /\ e.category = "config"
    /\ e.retryable = FALSE
    /\ e.code = CONFIG_VALIDATION_FAILED

\* C11 as claimed: with a valid repository and a supplied config path,
\* every failure of parsing or validation is returned as category config,
\* retryable false, code CONFIG_VALIDATION_FAILED.
ConfigFailureAlwaysValidationFailed ==
    (pfPc = "done" /\ RepoPassed /\ Truthy(configPath) /\ ConfigFailed) =>
       /\ ~pfResult[1].ok
       /\ IsConfigValidationFailure(pfResult[1].error)

\* C11 as amended: the failure is the parser's own error, unchanged, when
\* the parser threw an error it had classified itself, and otherwise has
\* category config, retryable false, code CONFIG_VALIDATION_FAILED.
ConfigFailureShape ==
    (pfPc = "done" /\ RepoPassed /\ Truthy(configPath) /\ ConfigFailed) =>
       /\ ~pfResult[1].ok
       /\ IF parsed.error.name = "PentestError"
            THEN pfResult[1].error = parsed.error
            ELSE IsConfigValidationFailure(pfResult[1].error)

\* The parser threw its own CONFIG_NOT_FOUND and the run returned it.
ConfigFailureShapeWitness ==
    /\ pfPc = "done"
    /\ RepoPassed
    /\ ConfigFailed
    /\ parsed.error.name = "PentestError"
    /\ pfResult[1].error.code = "CONFIG_NOT_FOUND"

\* C12: a failure of the credential check is (network, retryable, no code)
\* when isRetryableError classifies the raised error retryable, and
\* (config, not retryable, AUTH_FAILED) otherwise, a missing key included.
CredentialCheckFailed ==
    /\ pfPc = "done"
    /\ InStarted("credentials")
    /\ ~pfResult[1].ok

CredentialFailureShapes ==
    CredentialCheckFailed =>
       LET e == pfResult[1].error
           transient == /\ pfResponse.kind # None
                        /\ isRetryableError(Raised(pfResponse))
       IN IF transient
            THEN /\ e.category = "network"
                 /\ e.retryable = TRUE
                 /\ e.code = Undefined
            ELSE /\ e.category = "config"
                 /\ e.retryable = FALSE
                 /\ e.code = AUTH_FAILED

\* A 429 answer, returned as a network failure without a code.
CredentialFailureShapesWitness ==
    /\ CredentialCheckFailed
    /\ pfResponse.kind = "http"
    /\ pfResponse.status = "429"
    /\ pfResult[1].error.category = "network"

\* C13: runPreflightChecks never rejects: at every suspension point every
\* answer (a stat result or rejection, a parser result or throw, a 2xx,
\* a non-2xx, a failed body read, a failed request) is taken, and the run
\* ends by returning ok or a PentestError.
PreflightPoints == {"idle", "statRepo", "statGit", "parse", "fetch", "done"}

PreflightNeverThrows ==
    /\ pfPc \in PreflightPoints
    /\ pfPc = "statRepo" => \A s \in StatOutcomes : ENABLED StatRepo(s)
    /\ pfPc = "statGit" => \A s \in StatOutcomes : ENABLED StatGit(s)
    /\ pfPc = "parse" => \A o \in ParseOutcomes : ENABLED ParseConfig(o)
    /\ pfPc = "fetch" => \A r \in PingResponses : ENABLED CredentialResponse(r)
    /\ (pfPc = "done") <=> (Len(pfResult) = 1)
    /\ pfPc = "done" =>
          \/ pfResult[1] = ok
          \/ /\ ~pfResult[1].ok
             /\ pfResult[1].error.name = "PentestError"
             /\ pfResult[1].error.category \in {"config", "network"}
             /\ pfResult[1].error.retryable \in BOOLEAN

\* The body of a 401 answer could not be read, and the run returned.
PreflightNeverThrowsWitness ==
    /\ pfPc = "done"
    /\ pfResponse.kind = "httpAbort"
    /\ ~pfResult[1].ok

(***************************************************************************)
(* The execution wrapper's properties, continued                           *)
(***************************************************************************)
\* C14: an invocation answered HTTP 429 returns a failure whose retryable
\* flag is true, and is isRetryableError's verdict on the raised error.
RateLimited(i) ==
    /\ pc[i] = "done"
    /\ response[i].kind = "http"
    /\ response[i].status = "429"

RateLimitIsRetryable ==
    \A i \in Invocations :
       RateLimited(i) =>
          /\ outcome[i][1].kind = "return"
          /\ ~ReturnedValue(i).success
          /\ ReturnedValue(i).retryable = TRUE
          /\ ReturnedValue(i).retryable = isRetryableError(caught[i][1])

\* The 429 came back as a retryable failure.
RateLimitIsRetryableWitness ==
    /\ RateLimited(1)
    /\ ReturnedValue(1).retryable = TRUE
    /\ ReturnedValue(1).errorType = "Error"

\* The audit record of the one turn of a success.
ReturnedSuccess(i) ==
    /\ Ended(i)
    /\ outcome[i][1].kind = "return"
    /\ ReturnedValue(i).success

TurnRecord(i) ==
    [type |-> "llm_response", turnIndex |-> 1,
     responseText |-> ReturnedValue(i).result]

TurnRecords(i) == {k \in 1..Len(audit[i]) : audit[i][k].type = "llm_response"}

SuccessCarriesAnswer(i) ==
    /\ ReturnedValue(i).turns = 1
    /\ response[i].kind = "ok"
    /\ ReturnedValue(i).result = Content(response[i].completion)
    /\ ~CapTriggered(i)

\* C15 as claimed: a success has turns = 1 and the text of the 2xx answer
\* (empty when absent), the heuristic did not trigger on it, and exactly
\* one audit turn record {1, text} was appended before it was returned.
SuccessHasOneTurnRecord ==
    \A i \in Invocations :
       ReturnedSuccess(i) =>
          /\ SuccessCarriesAnswer(i)
          /\ Cardinality(TurnRecords(i)) = 1
          /\ audit[i][1] = TurnRecord(i)

\* C15 as amended: the audit log holds that one turn record when an audit
\* session is bound and the logger's append did not fail, and nothing
\* otherwise.
SuccessTurnRecord ==
    \A i \in Invocations :
       ReturnedSuccess(i) =>
          /\ SuccessCarriesAnswer(i)
          /\ audit[i] = IF args[i].auditSession # Null /\ auditFaults[i] = 0
                          THEN <<TurnRecord(i)>>
                          ELSE <<>>

\* A success without content, its audit session holding the turn.
SuccessTurnRecordWitness ==
    /\ ReturnedSuccess(1)
    /\ "content" \notin DOMAIN response[1].completion
    /\ ReturnedValue(1).result = <<>>
    /\ audit[1] = <<TurnRecord(1)>>

\* Positions of a call in an invocation's trace.
At(i, call) == {k \in 1..Len(trace[i]) : trace[i][k] = call}
Precedes(i, a, b) == \A k \in At(i, b) : \E j \in At(i, a) : j < k
Exits == {"return", "throw"}

\* C16: in an invocation that issues the request, the timer was created and
\* the progress reporter started before the request went out; and every
\* audit append of an invocation has settled before the invocation returns.
StartsBeforeRequestAuditBeforeReturn ==
    \A i \in Invocations :
       /\ Precedes(i, "new Timer", "fetch")
       /\ Precedes(i, "progress.start", "fetch")
       /\ http[i] > 0 =>
             /\ At(i, "fetch") # {}
             /\ timer[i].state # None
             /\ progress[i] # <<>> /\ progress[i][1] = "start"
       /\ \A k \in 1..Len(trace[i]) :
             trace[i][k] \in Exits => k = Len(trace[i])
       /\ Ended(i) <=> (trace[i] # <<>> /\ trace[i][Len(trace[i])] \in Exits)
       /\ Len(audit[i]) <= Cardinality(At(i, "logLlmResponse"))
                             + Cardinality(At(i, "logError"))

\* A spending-cap failure: both audit appends settled, then the return.
StartsBeforeRequestAuditBeforeReturnWitness ==
    /\ Ended(1)
    /\ Len(audit[1]) = 2
    /\ At(1, "logLlmResponse") # {}
    /\ At(1, "logError") # {}
    /\ trace[1][Len(trace[1])] = "return"

\* C18: the heartbeat test is made once for a request, before the request
\* goes out, and not again while it is pending; no status line is emitted,
\* however long the request takes.
HeartbeatOnlyAtStart ==
    \A i \in Invocations :
       /\ heartbeat[i].checks = Cardinality(At(i, "heartbeat"))
       /\ heartbeat[i].checks = http[i]
       /\ \A k \in At(i, "heartbeat") : \E j \in At(i, "fetch") : j = k + 1
       /\ heartbeat[i].lines = 0

\* A request pending for more than the interval, the loader disabled.
HeartbeatOnlyAtStartWitness ==
    /\ pc[1] = "fetch"
    /\ loaderOff
    /\ now - timer[1].startTime > HEARTBEAT_INTERVAL
    /\ heartbeat[1] = [checks |-> 1, lines |-> 0]

\* C19: the progress reporter is never finished or stopped unless started,
\* and never both; an invocation that started it ends with it finished
\* exactly when it returns a success and stopped exactly when it fails.
ProgressLifecycle ==
    \A i \in Invocations :
       /\ progress[i] \in {<<>>, <<"start">>, <<"start", "finish">>,
                           <<"start", "stop">>}
       /\ (Ended(i) /\ progress[i] # <<>>) =>
             /\ progress[i] # <<"start">>
             /\ (progress[i] = <<"start", "finish">>) <=> ReturnedSuccess(i)
             /\ (progress[i] = <<"start", "stop">>) <=> EndedInFailure(i)
       /\ (Ended(i) /\ progress[i] = <<>>) => http[i] = 0

\* A failed invocation, its reporter started and stopped.
ProgressLifecycleWitness ==
    /\ Ended(1)
    /\ EndedInFailure(1)
    /\ progress[1] = <<"start", "stop">>

\* What an invocation returns, and the audit records it appends, when it
\* runs alone on its own arguments, its own answer and its own clock reading.
AloneOutcome(i) ==
    IF ~HasKey THEN Thrown(MissingKey)
    ELSE IF response[i].kind = "ok" /\ ~CapTriggered(i)
    THEN Returned(Success(Content(response[i].completion), duration[i], 1, 0,
                          IF response[i].completion.model # Undefined
                          THEN response[i].completion.model
                          ELSE OptionsModel,
                          FALSE))
    ELSE Returned(Failure(PrimaryError(i), FullPrompt(args[i]), duration[i], 0))

AloneAudit(i) ==
    (IF HasKey /\ response[i].kind = "ok"
     THEN <<[type |-> "llm_response", turnIndex |-> 1,
             responseText |-> Content(response[i].completion)]>>
     ELSE <<>>)
    \o (IF HasKey /\ ~(response[i].kind = "ok" /\ ~CapTriggered(i))
        THEN <<[type |-> "error", error |-> PrimaryError(i),
                duration |-> duration[i], turnCount |-> turnCount[i]]>>
        ELSE <<>>)

\* Each of two interleaved invocations ends as it would alone.
ConcurrentAsAlone ==
    \A i \in Invocations :
       Ended(i) =>
          /\ outcome[i] = AloneOutcome(i)
          /\ (args[i].auditSession # Null /\ auditFaults[i] = 0) =>
                audit[i] = AloneAudit(i)

\* C17: under every interleaving of two invocations each returns the result
\* and appends the audit records it would alone, and two failing invocations
\* on one sourceDir, no append to error.log being rejected, leave exactly
\* two lines in that directory's error.log.
ConcurrentInvocationsIsolated ==
    /\ ConcurrentAsAlone
    /\ \A i, j \in Invocations :
          (/\ i # j
           /\ EndedInFailure(i) /\ EndedInFailure(j)
           /\ args[i].sourceDir = args[j].sourceDir
           /\ logWritten[i] # <<FALSE>> /\ logWritten[j] # <<FALSE>>) =>
             Len(errorLog[args[i].sourceDir]) = 2

\* Two interleaved failures that reached writeErrorLog: one line each.
ConcurrentFailuresBothLogged ==
    /\ EndedInFailure(1) /\ EndedInFailure(2)
    /\ logWritten[1] = <<TRUE>> /\ logWritten[2] = <<TRUE>>
    /\ Len(errorLog[args[1].sourceDir]) = 2

====
